---- MODULE Spec2Model ----
(***************************************************************************)
(* Sentiment analysis of tweets against a lexicon of positive, negative   *)
(* and neutral words (src/program.py).                                    *)
(*                                                                         *)
(* A string is a sequence of characters; a character is a one-element     *)
(* token.  Non-ASCII characters are written by their code point name.     *)
(***************************************************************************)
EXTENDS Integers, Sequences, FiniteSets, TLC

VARIABLES
    pc,              \* control point of the operation under way
    text,            \* the text argument of sanitize_text and get_count_vector
    words,           \* the words argument of get_count_vector
    tweet,           \* the tweet argument of process_tweet
    positive_words,  \* the lexicon lists held by main and given to process_tweet
    negative_words,
    neutral_words,
    all_words,
    payload,         \* the decoded JSON document load_words validates
    lines,           \* the lines of the tweets file
    tweets,          \* the list load_tweets returns
    results,         \* the result records main collects
    ret,             \* value returned by the last call
    raised           \* exception raised by the last call (NoError when none)

vars == <<pc, text, words, tweet, positive_words, negative_words, neutral_words,
          all_words, payload, lines, tweets, results, ret, raised>>

\* The messages of the exceptions are written without their accents.
\* a call that returned: no exception
NoError == [exc |-> "", msg |-> ""]
ValueError(m) == [exc |-> "ValueError", msg |-> m]

\* the outcome of a call that raised e
Failed(e) == [raised |-> e, value |-> <<>>]

(***************************************************************************)
(* Characters                                                              *)
(***************************************************************************)
EAcute == "U+00E9"           \* e with acute accent
CapEAcute == "U+00C9"        \* E with acute accent
CombiningAcute == "U+0301"   \* combining acute accent
InvertedExcl == "U+00A1"     \* inverted exclamation mark

LowerLetters == {"a", "b", "c", "e"}
UpperLetters == {"A"}
Digits == {"1", "2"}
Whitespace == {" ", "\n"}
AsciiChars == LowerLetters \cup UpperLetters \cup Digits \cup Whitespace
                \cup {"-", "'", ",", "!", "_"}

\* str.lower of one character
LowerChar(c) ==
    CASE c = "A" -> "a"
      [] c = CapEAcute -> EAcute
      [] OTHER -> c

\* unicodedata.normalize('NFKD', c) of one character
NFKDChar(c) ==
    CASE c = EAcute -> <<"e", CombiningAcute>>
      [] c = CapEAcute -> <<"E", CombiningAcute>>
      [] OTHER -> <<c>>

\* str.isalpha of one character
IsAlphaChar(c) == c \in LowerLetters \cup UpperLetters \cup {EAcute, CapEAcute}

\* characters the slug keeps: [-a-zA-Z0-9]
SlugChars == LowerLetters \cup UpperLetters \cup Digits \cup {"-"}
IsSlugChar(c) == c \in SlugChars

\* every character of the model
Chars == AsciiChars \cup {EAcute, CapEAcute, CombiningAcute, InvertedExcl}

(***************************************************************************)
(* String operations                                                       *)
(***************************************************************************)
\* leading characters of the set cs removed
RECURSIVE LStrip(_, _)
LStrip(s, cs) ==
    IF s # <<>> /\ Head(s) \in cs THEN LStrip(Tail(s), cs) ELSE s

\* trailing characters of the set cs removed
RECURSIVE RStrip(_, _)
RStrip(s, cs) ==
    IF s # <<>> /\ s[Len(s)] \in cs THEN RStrip(SubSeq(s, 1, Len(s) - 1), cs) ELSE s

\* str.strip(cs): leading and trailing characters of the set cs removed
Strip(s, cs) == RStrip(LStrip(s, cs), cs)

\* str.lower()
Lower(s) == [i \in 1..Len(s) |-> LowerChar(s[i])]

\* unicodedata.normalize('NFKD', s)
RECURSIVE NFKD(_)
NFKD(s) == IF s = <<>> THEN <<>> ELSE NFKDChar(Head(s)) \o NFKD(Tail(s))

\* s.encode('ASCII', 'ignore').decode('ASCII'): non-ASCII characters dropped
AsciiIgnore(s) == SelectSeq(s, LAMBDA c : c \in AsciiChars)

\* str.replace(old, new) for single characters
Replace(s, old, new) == [i \in 1..Len(s) |-> IF s[i] = old THEN new ELSE s[i]]

\* re.sub(r"[']+", '-', s): each run of quotes becomes one separator
RECURSIVE QuotesToDash(_)
QuotesToDash(s) ==
    IF s = <<>> THEN <<>>
    ELSE IF Head(s) = "'"
         THEN <<"-">> \o QuotesToDash(LStrip(s, {"'"}))
         ELSE <<Head(s)>> \o QuotesToDash(Tail(s))

\* re.sub(r'(?<=\d),(?=\d)', '', s): a comma between two digits is removed
NumbersCleanup(s) ==
    LET keep(i) == ~(s[i] = "," /\ i > 1 /\ i < Len(s)
                       /\ s[i - 1] \in Digits /\ s[i + 1] \in Digits)
        F[i \in 0..Len(s)] ==
            IF i = 0 THEN <<>>
            ELSE IF keep(i) THEN Append(F[i - 1], s[i]) ELSE F[i - 1]
    IN  F[Len(s)]

\* re.sub(r'[^-a-zA-Z0-9]+', '-', s): each run of other characters becomes one
\* separator
RECURSIVE DisallowedToDash(_)
DisallowedToDash(s) ==
    IF s = <<>> THEN <<>>
    ELSE IF ~IsSlugChar(Head(s))
         THEN <<"-">> \o DisallowedToDash(LStrip(s, Chars \ SlugChars))
         ELSE <<Head(s)>> \o DisallowedToDash(Tail(s))

\* re.sub(r'-{2,}', '-', s)
RECURSIVE CollapseDashes(_)
CollapseDashes(s) ==
    IF s = <<>> THEN <<>>
    ELSE IF Head(s) = "-"
         THEN <<"-">> \o CollapseDashes(LStrip(s, {"-"}))
         ELSE <<Head(s)>> \o CollapseDashes(Tail(s))

\* a variant of slugify that leaves the separators at both ends
SlugifyNoStrip(s) ==
    CollapseDashes(DisallowedToDash(NumbersCleanup(
        Lower(NFKD(QuotesToDash(s))))))

\* slg.slugify(s) with its default arguments, on the ASCII text it is given:
\* quotes to separators, NFKD, lowercase, digit-grouping commas removed, every
\* run of characters outside [-a-z0-9] to one separator, separators collapsed
\* and stripped from both ends
slugify(s) ==
    Strip(CollapseDashes(DisallowedToDash(NumbersCleanup(
              Lower(NFKD(QuotesToDash(s)))))),
          {"-"})

\* sanitize_text(text)
sanitize_text(s) ==
    Replace(slugify(AsciiIgnore(NFKD(Lower(Strip(s, Whitespace))))), "-", " ")

(***************************************************************************)
(* get_count_vector                                                        *)
(***************************************************************************)
\* str.isalpha(): non-empty and every character alphabetic
isalpha(word) == word # <<>> /\ \A i \in 1..Len(word) : IsAlphaChar(word[i])

\* the leading run of non-whitespace characters of s
RECURSIVE FirstToken(_)
FirstToken(s) ==
    IF s = <<>> \/ Head(s) \in Whitespace THEN <<>>
    ELSE <<Head(s)>> \o FirstToken(Tail(s))

\* str.split(): the maximal runs of non-whitespace characters, in order
RECURSIVE split(_)
split(s) ==
    LET t == LStrip(s, Whitespace)
        w == FirstToken(t)
    IN  IF t = <<>> THEN <<>>
        ELSE <<w>> \o split(SubSeq(t, Len(w) + 1, Len(t)))

\* np.zeros((n,), dtype=int)
zeros(n) == [i \in 1..n |-> 0]

\* a variant of the inner loop that adds two for each match
CountTokenTwice(ws, count_vector, word) ==
    [i \in 1..Len(ws) |-> IF ws[i] = word THEN count_vector[i] + 2
                                          ELSE count_vector[i]]

\* a variant of the inner loop that matches on the first character only
CountTokenPrefix(ws, count_vector, word) ==
    [i \in 1..Len(ws) |-> IF SubSeq(ws[i], 1, 1) = SubSeq(word, 1, 1)
                          THEN count_vector[i] + 1
                          ELSE count_vector[i]]

\* the inner loop of get_count_vector for one token of the text:
\* if text_word == word: count_vector[i] += 1
CountToken(ws, count_vector, word) ==
    [i \in 1..Len(ws) |-> IF ws[i] = word THEN count_vector[i] + 1
                                          ELSE count_vector[i]]

\* the outer loop of get_count_vector over the tokens
RECURSIVE CountLoop(_, _, _)
CountLoop(ws, count_vector, toks) ==
    IF toks = <<>> THEN count_vector
    ELSE CountLoop(ws, CountToken(ws, count_vector, Head(toks)), Tail(toks))

\* get_count_vector(text, words): the exception raised, or the vector returned
get_count_vector(t, ws) ==
    IF ws = <<>>
    THEN [raised |-> ValueError("El conjunto de palabras no puede estar vacio."),
          value |-> <<>>]
    ELSE IF ~\A i \in 1..Len(ws) : isalpha(ws[i])
    THEN [raised |-> ValueError("El conjunto de palabras debe contener palabras."),
          value |-> <<>>]
    ELSE [raised |-> NoError, value |-> CountLoop(ws, zeros(Len(ws)), split(t))]

(***************************************************************************)
(* Natural numbers of any size, as little-endian sequences of 15-bit limbs *)
(* with no leading zero limb: the 53-bit significands of Python's floats   *)
(* exceed the integers of the model checker.                               *)
(***************************************************************************)
Base == 2 ^ 15

RECURSIVE BigFromNat(_)
BigFromNat(n) == IF n = 0 THEN <<>> ELSE <<n % Base>> \o BigFromNat(n \div Base)

RECURSIVE BigAddCarry(_, _, _)
BigAddCarry(a, b, c) ==
    IF a = <<>> /\ b = <<>> THEN BigFromNat(c)
    ELSE LET x == (IF a = <<>> THEN 0 ELSE Head(a))
                  + (IF b = <<>> THEN 0 ELSE Head(b)) + c
         IN  <<x % Base>> \o BigAddCarry(IF a = <<>> THEN <<>> ELSE Tail(a),
                                         IF b = <<>> THEN <<>> ELSE Tail(b),
                                         x \div Base)

BigAdd(a, b) == BigAddCarry(a, b, 0)

\* a * k + c for k, c below Base
RECURSIVE BigMulSmall(_, _, _)
BigMulSmall(a, k, c) ==
    IF a = <<>> \/ k = 0 THEN BigFromNat(c)
    ELSE LET x == Head(a) * k + c
         IN  <<x % Base>> \o BigMulSmall(Tail(a), k, x \div Base)

RECURSIVE BigTrim(_)
BigTrim(a) ==
    IF a # <<>> /\ a[Len(a)] = 0 THEN BigTrim(SubSeq(a, 1, Len(a) - 1)) ELSE a

\* a * 2^d
BigShl(a, d) ==
    IF a = <<>> THEN <<>>
    ELSE [i \in 1..(d \div 15) |-> 0] \o BigMulSmall(a, 2 ^ (d % 15), 0)

\* a \div 2^d
BigShr(a, d) ==
    LET k == d \div 15
        r == d % 15
        b == SubSeq(a, k + 1, Len(a))
    IN  BigTrim([i \in 1..Len(b) |->
                    (b[i] \div 2 ^ r)
                    + (IF i < Len(b) THEN (b[i + 1] % 2 ^ r) * 2 ^ (15 - r) ELSE 0)])

RECURSIVE SmallBitLen(_)
SmallBitLen(n) == IF n = 0 THEN 0 ELSE 1 + SmallBitLen(n \div 2)

\* the number of bits of a
BigBitLen(a) == IF a = <<>> THEN 0 ELSE 15 * (Len(a) - 1) + SmallBitLen(a[Len(a)])

\* bit i of a (bit 0 is the lowest)
BigBit(a, i) ==
    IF i \div 15 + 1 > Len(a) THEN 0
    ELSE (a[i \div 15 + 1] \div 2 ^ (i % 15)) % 2

\* the d lowest bits of a are all zero
BigLowZero(a, d) ==
    /\ \A i \in 1..(d \div 15) : i <= Len(a) => a[i] = 0
    /\ d \div 15 + 1 <= Len(a) => a[d \div 15 + 1] % 2 ^ (d % 15) = 0

\* a <= b
RECURSIVE BigLeq(_, _)
BigLeq(a, b) ==
    IF Len(a) # Len(b) THEN Len(a) < Len(b)
    ELSE IF a = <<>> THEN TRUE
    ELSE IF a[Len(a)] # b[Len(b)] THEN a[Len(a)] < b[Len(b)]
    ELSE BigLeq(BigTrim(SubSeq(a, 1, Len(a) - 1)), BigTrim(SubSeq(b, 1, Len(b) - 1)))

\* quotient and remainder of a by n, for n below Base: long division from the
\* highest limb down
RECURSIVE BigDivSmall(_, _)
BigDivSmall(a, n) ==
    IF a = <<>> THEN [q |-> <<>>, r |-> 0]
    ELSE LET up == BigDivSmall(Tail(a), n)
             x == up.r * Base + Head(a)
         IN  [q |-> BigTrim(<<x \div n>> \o up.q), r |-> x % n]

(***************************************************************************)
(* IEEE 754 binary64 arithmetic on non-negative values, as Python's float  *)
(* and numpy's float64 compute it: a value is m * 2^e with m of exactly    *)
(* Precision bits, or zero; every operation returns the exact result       *)
(* rounded to nearest, ties to even.  The values of the program stay far   *)
(* from overflow and from the subnormal range.                             *)
(***************************************************************************)
Precision == 53

FZero == [m |-> <<>>, e |-> 0]

\* the double nearest to a * 2^e
RoundNearestEven(a, e) ==
    LET L == BigBitLen(a)
        d == L - Precision
        q == BigShr(a, d)
        up == /\ BigBit(a, d - 1) = 1
              /\ ~BigLowZero(a, d - 1) \/ BigBit(q, 0) = 1
        q2 == IF up THEN BigAdd(q, <<1>>) ELSE q
    IN  IF L = 0 THEN FZero
        ELSE IF d <= 0 THEN [m |-> BigShl(a, -d), e |-> e + d]
        ELSE IF BigBitLen(q2) > Precision THEN [m |-> BigShr(q2, 1), e |-> e + d + 1]
        ELSE [m |-> q2, e |-> e + d]

\* an exact value a * 2^e, with a of any size
Exact(a, e) == [m |-> a, e |-> e]

\* x + y, exactly
ExactAdd(x, y) ==
    LET emin == IF x.e < y.e THEN x.e ELSE y.e
    IN  Exact(BigAdd(BigShl(x.m, x.e - emin), BigShl(y.m, y.e - emin)), emin)

\* x * c, exactly, for an integer 0 <= c below Base
ExactMulInt(x, c) == Exact(BigMulSmall(x.m, c, 0), x.e)

\* x <= y
ExactLeq(x, y) ==
    LET emin == IF x.e < y.e THEN x.e ELSE y.e
    IN  BigLeq(BigShl(x.m, x.e - emin), BigShl(y.m, y.e - emin))

\* float(p) / float(n) for integers 0 <= p and 0 < n below Base: the quotient
\* to 75 fractional bits, with one more bit that records a non-zero remainder
FDiv(p, n) ==
    LET qr == BigDivSmall(BigShl(BigFromNat(p), 75), n)
    IN  RoundNearestEven(BigAdd(BigShl(qr.q, 1), IF qr.r = 0 THEN <<>> ELSE <<1>>),
                         -76)

\* x * float(c) for an integer 0 <= c below Base
FMulInt(x, c) ==
    LET p == ExactMulInt(x, c) IN RoundNearestEven(p.m, p.e)

\* x + y
FAdd(x, y) ==
    IF x = FZero THEN y
    ELSE IF y = FZero THEN x
    ELSE LET sum == ExactAdd(x, y) IN RoundNearestEven(sum.m, sum.e)

(***************************************************************************)
(* get_classification_vector and process_tweet                             *)
(***************************************************************************)
AllAlpha(ws) == \A i \in 1..Len(ws) : isalpha(ws[i])

\* the number of words of ws equal to the token
Matches(ws, word) == Cardinality({i \in 1..Len(ws) : ws[i] = word})

\* the three inner loops of get_classification_vector for one token: slot 1
\* counts the positive, slot 2 the neutral and slot 3 the negative words
ClassifyToken(pos, neu, neg, classification_vector, current_word) ==
    <<classification_vector[1] + Matches(pos, current_word),
      classification_vector[2] + Matches(neu, current_word),
      classification_vector[3] + Matches(neg, current_word)>>

RECURSIVE ClassifyLoop(_, _, _, _, _)
ClassifyLoop(pos, neu, neg, classification_vector, toks) ==
    IF toks = <<>> THEN classification_vector
    ELSE ClassifyLoop(pos, neu, neg,
                      ClassifyToken(pos, neu, neg, classification_vector, Head(toks)),
                      Tail(toks))

\* get_classification_vector(positive_words, neutral_words, negative_words, text)
get_classification_vector(pos, neu, neg, t) ==
    IF pos = <<>>
    THEN [raised |-> ValueError("El conjunto de palabras positivas no puede estar vacio."),
          value |-> <<>>]
    ELSE IF neg = <<>>
    THEN [raised |-> ValueError("El conjunto de palabras negativas no puede estar vacio."),
          value |-> <<>>]
    ELSE IF neu = <<>>
    THEN [raised |-> ValueError("El conjunto de palabras neutrales no puede estar vacio."),
          value |-> <<>>]
    ELSE IF ~AllAlpha(pos)
    THEN [raised |-> ValueError("El conjunto de palabras positivas debe contener palabras."),
          value |-> <<>>]
    ELSE IF ~AllAlpha(neg)
    THEN [raised |-> ValueError("El conjunto de palabras negativas debe contener palabras."),
          value |-> <<>>]
    ELSE IF ~AllAlpha(neu)
    THEN [raised |-> ValueError("El conjunto de palabras neutrales debe contener palabras."),
          value |-> <<>>]
    ELSE [raised |-> NoError,
          value |-> ClassifyLoop(pos, neu, neg, zeros(3), split(t))]

\* a variant of the weights that lets the neutral matches count
weight_vector_all_ones == <<1, 1, -1>>

\* weight_vector = np.array([1, 0, -1])
weight_vector == <<1, 0, -1>>

\* classification_vector.T @ weight_vector
Score(classification_vector) ==
    classification_vector[1] * weight_vector[1]
    + classification_vector[2] * weight_vector[2]
    + classification_vector[3] * weight_vector[3]

\* sum(...): the terms added from the left, starting from 0
RECURSIVE FSum(_, _)
FSum(acc, terms) ==
    IF terms = <<>> THEN acc ELSE FSum(FAdd(acc, Head(terms)), Tail(terms))

\* (1/n) * c for the small n and c, computed once
MemoSize == 2 ^ 3
ScaledCountMemo == [n \in 1..MemoSize, c \in 0..MemoSize |-> FMulInt(FDiv(1, n), c)]

\* one entry of np.dot((1/len(all_words)), count_vector): (1/n) * c
ScaledCount(n, c) ==
    IF n <= MemoSize /\ c <= MemoSize THEN ScaledCountMemo[n, c]
    ELSE FMulInt(FDiv(1, n), c)

\* a variant that divides by one more than the size of the lexicon
QualityIndexOffByOne(count_vector, n) ==
    FSum(FZero, [i \in 1..Len(count_vector) |-> ScaledCount(n + 1, count_vector[i])])

\* quality_index = sum(np.dot((1/len(all_words)), count_vector))
QualityIndex(count_vector, n) ==
    FSum(FZero, [i \in 1..Len(count_vector) |-> ScaledCount(n, count_vector[i])])

\* process_tweet(tweet, positive_words, negative_words, neutral_words, all_words):
\* the exception raised, or the score and the quality index returned, with
\* the two vectors they were computed from
process_tweet(tw, pos, neg, neu, all) ==
    IF tw = <<>> THEN Failed(ValueError("El tweet no puede estar vacio."))
    ELSE IF pos = <<>>
    THEN Failed(ValueError("El conjunto de palabras positivas no puede estar vacio."))
    ELSE IF neg = <<>>
    THEN Failed(ValueError("El conjunto de palabras negativas no puede estar vacio."))
    ELSE IF neu = <<>>
    THEN Failed(ValueError("El conjunto de palabras neutrales no puede estar vacio."))
    ELSE IF all = <<>>
    THEN Failed(ValueError("El conjunto de palabras no puede estar vacio."))
    ELSE IF ~AllAlpha(pos)
    THEN Failed(ValueError("El conjunto de palabras positivas debe contener palabras."))
    ELSE IF ~AllAlpha(neg)
    THEN Failed(ValueError("El conjunto de palabras negativas debe contener palabras."))
    ELSE IF ~AllAlpha(neu)
    THEN Failed(ValueError("El conjunto de palabras neutrales debe contener palabras."))
    ELSE IF ~AllAlpha(all)
    THEN Failed(ValueError("El conjunto de palabras debe contener palabras."))
    ELSE LET count_vector == get_count_vector(tw, all)
             classification_vector == get_classification_vector(pos, neu, neg, tw)
         IN  IF count_vector.raised # NoError THEN Failed(count_vector.raised)
             ELSE IF classification_vector.raised # NoError
             THEN Failed(classification_vector.raised)
             ELSE [raised |-> NoError,
                   value |-> [count_vector |-> count_vector.value,
                              classification_vector |-> classification_vector.value,
                              score |-> Score(classification_vector.value),
                              quality_index |->
                                  QualityIndex(count_vector.value, Len(all))]]

(***************************************************************************)
(* load_words                                                              *)
(*                                                                         *)
(* A JSON value is a record of its type and its content: the characters   *)
(* of a string, the items of an array, the members of an object (a         *)
(* function of its keys).                                                  *)
(***************************************************************************)
JString(s) == [type |-> "string", chars |-> s]
JNumber == [type |-> "number"]
JArray(items) == [type |-> "array", items |-> items]
JObject(members) == [type |-> "object", members |-> members]

\* a variant of the schema that admits additional keys
WORDS_JSON_SCHEMA_open ==
    [properties |-> {"positive", "negative", "neutral"},
     required |-> {"positive", "negative", "neutral"},
     additionalProperties |-> TRUE]

\* WORDS_JSON_SCHEMA: each property is {'type': 'array', 'items': {'type': 'string'}}
WORDS_JSON_SCHEMA ==
    [properties |-> {"positive", "negative", "neutral"},
     required |-> {"positive", "negative", "neutral"},
     additionalProperties |-> FALSE]

\* {'type': 'array', 'items': {'type': 'string'}}
IsArrayOfStrings(v) ==
    /\ v.type = "array"
    /\ \A i \in 1..Len(v.items) : v.items[i].type = "string"

\* validate(instance=words, schema=WORDS_JSON_SCHEMA) raises nothing
validate(instance) ==
    /\ instance.type = "object"
    /\ WORDS_JSON_SCHEMA.required \subseteq DOMAIN instance.members
    /\ WORDS_JSON_SCHEMA.additionalProperties
       \/ DOMAIN instance.members \subseteq WORDS_JSON_SCHEMA.properties
    /\ \A k \in DOMAIN instance.members \cap WORDS_JSON_SCHEMA.properties :
           IsArrayOfStrings(instance.members[k])

\* [sanitize_text(word) for word in a JSON array of strings]
SanitizeAll(array) == [i \in 1..Len(array.items) |-> sanitize_text(array.items[i].chars)]

\* a variant that concatenates in the argument order of
\* get_classification_vector: positive + neutral + negative
ConcatNeutralFirst(pos, neg, neu) == pos \o neu \o neg

\* all_words = positive + negative + neutral
Concat(pos, neg, neu) == pos \o neg \o neu

\* a variant that only sees a word repeated next to itself
HasAdjacentRepeats(ws) == \E i \in 1..(Len(ws) - 1) : ws[i] = ws[i + 1]

\* len(all_words) != len(set(all_words))
HasRepeats(ws) == Len(ws) # Cardinality({ws[i] : i \in 1..Len(ws)})

\* load_words, from the decoded JSON document on: the exception raised, or
\* the four lists returned
load_words(json) ==
    IF ~validate(json)
    THEN Failed(ValueError("El archivo no tiene el formato correcto."))
    ELSE IF json.members["positive"].items = <<>>
    THEN Failed(ValueError("El archivo no contiene palabras positivas."))
    ELSE IF json.members["negative"].items = <<>>
    THEN Failed(ValueError("El archivo no contiene palabras negativas."))
    ELSE IF json.members["neutral"].items = <<>>
    THEN Failed(ValueError("El archivo no contiene palabras neutrales."))
    ELSE LET positive == SanitizeAll(json.members["positive"])
             negative == SanitizeAll(json.members["negative"])
             neutral == SanitizeAll(json.members["neutral"])
             all == Concat(positive, negative, neutral)
         IN  IF HasRepeats(all)
             THEN Failed(ValueError("El archivo contiene palabras repetidas."))
             ELSE [raised |-> NoError,
                   value |-> [positive |-> positive, negative |-> negative,
                              neutral |-> neutral, all_words |-> all]]

(***************************************************************************)
(* Bounded input sets                                                      *)
(***************************************************************************)
MaxLen == 3

RECURSIVE SeqsUpTo(_, _)
SeqsUpTo(S, n) ==
    IF n = 0 THEN {<<>>}
    ELSE LET shorter == SeqsUpTo(S, n - 1)
         IN  shorter \cup {Append(s, c) : s \in {t \in shorter : Len(t) = n - 1}, c \in S}

RawChars == {"a", "A", EAcute, "1", " ", "\n", "-", "'", ",", "!", InvertedExcl, "_"}

(***************************************************************************)
(* sanitize_text applied to a text, then to its own result                 *)
(***************************************************************************)
InitSanitize ==
    /\ pc = "sanitize"
    /\ text \in SeqsUpTo(RawChars, MaxLen)
    /\ words = <<>>
    /\ tweet = <<>>
    /\ positive_words = <<>>
    /\ negative_words = <<>>
    /\ neutral_words = <<>>
    /\ all_words = <<>>
    /\ payload = <<>>
    /\ lines = <<>>
    /\ tweets = <<>>
    /\ results = <<>>
    /\ ret = <<>>
    /\ raised = NoError

\* sanitize_text(text); ret collects the successive results
Sanitize ==
    /\ pc = "sanitize"
    /\ ret' = <<sanitize_text(text)>>
    /\ pc' = "sanitized"
    /\ UNCHANGED <<text, words, tweet, positive_words, negative_words,
                   neutral_words, all_words, payload, lines, tweets, results,
                   raised>>

\* sanitize_text applied to the text it returned
SanitizeAgain ==
    /\ pc = "sanitized"
    /\ ret' = Append(ret, sanitize_text(ret[1]))
    /\ pc' = "resanitized"
    /\ UNCHANGED <<text, words, tweet, positive_words, negative_words,
                   neutral_words, all_words, payload, lines, tweets, results,
                   raised>>

NextSanitize == Sanitize \/ SanitizeAgain

SpecSanitize == InitSanitize /\ [][NextSanitize]_vars

\* C8: sanitizing a sanitized text returns it unchanged:
\* sanitize_text(sanitize_text(s)) = sanitize_text(s) for every string s.
C8_Idempotent == pc = "resanitized" => ret[2] = ret[1]

\* C8 witness: a text that sanitizing changed (the upper case, the quote and
\* the accent are gone) has been sanitized a second time.
C8_Witness ==
    /\ pc = "resanitized"
    /\ text = <<"A", "'", EAcute>>
    /\ ret[1] = <<"a", " ", "e">>

(***************************************************************************)
(* get_count_vector applied to a text and a word list                      *)
(***************************************************************************)
MaxTextLen == 5
MaxWordsLen == 2

TextChars == {"a", "b", " "}
CountWords == {<<"a">>, <<"b">>, <<"a", "b">>, <<"a", "1">>}

InitCount ==
    /\ pc = "count"
    /\ text \in SeqsUpTo(TextChars, MaxTextLen)
    /\ words \in SeqsUpTo(CountWords, MaxWordsLen)
    /\ tweet = <<>>
    /\ positive_words = <<>>
    /\ negative_words = <<>>
    /\ neutral_words = <<>>
    /\ all_words = <<>>
    /\ payload = <<>>
    /\ lines = <<>>
    /\ tweets = <<>>
    /\ results = <<>>
    /\ ret = <<>>
    /\ raised = NoError

GetCountVector ==
    /\ pc = "count"
    /\ LET r == get_count_vector(text, words)
       IN  /\ ret' = r.value
           /\ raised' = r.raised
           /\ pc' = IF r.raised = NoError THEN "counted" ELSE "raised"
    /\ UNCHANGED <<text, words, tweet, positive_words, negative_words,
                   neutral_words, all_words, payload, lines, tweets, results>>

NextCount == GetCountVector

SpecCount == InitCount /\ [][NextCount]_vars

\* the positions of t where a whitespace-delimited token starts
TokenStarts(t) ==
    {k \in 1..Len(t) : t[k] \notin Whitespace /\ (k = 1 \/ t[k - 1] \in Whitespace)}

\* the position where the token starting at k ends
TokenEnd(t, k) ==
    CHOOSE j \in k..Len(t) :
        /\ \A m \in k..j : t[m] \notin Whitespace
        /\ j = Len(t) \/ t[j + 1] \in Whitespace

\* the token of t that starts at k
TokenAt(t, k) == SubSeq(t, k, TokenEnd(t, k))

NumTokens(t) == Cardinality(TokenStarts(t))

\* the number of tokens of t equal to w
Occurrences(t, w) == Cardinality({k \in TokenStarts(t) : TokenAt(t, k) = w})

RECURSIVE SumSeq(_)
SumSeq(v) == IF v = <<>> THEN 0 ELSE Head(v) + SumSeq(Tail(v))

ValidWords(ws) == ws # <<>> /\ \A i \in 1..Len(ws) : isalpha(ws[i])

\* C1: for a non-empty list of alphabetic words get_count_vector returns a
\* vector as long as the list whose i-th entry is the number of
\* whitespace-delimited tokens of the text equal to the i-th word.
C1_CountVector ==
    (pc # "count" /\ ValidWords(words)) =>
        /\ pc = "counted"
        /\ Len(ret) = Len(words)
        /\ \A i \in 1..Len(words) : ret[i] = Occurrences(text, words[i])

\* C1 witness: a vector with a zero and a two was returned for a text whose
\* tokens are separated by more than one blank.
C1_Witness ==
    /\ pc = "counted"
    /\ text = <<"a", " ", " ", "a">>
    /\ words = <<<<"a", "b">>, <<"a">>>>
    /\ ret = <<0, 2>>

\* C2 as stated: the entries sum to at most the number of tokens, with
\* equality exactly when every token matches one word of the list once, for
\* every accepted word list (repeated words included).
C2_Original ==
    pc = "counted" =>
        /\ SumSeq(ret) <= NumTokens(text)
        /\ SumSeq(ret) = NumTokens(text) <=>
               \A k \in TokenStarts(text) :
                   Cardinality({i \in 1..Len(words) : words[i] = TokenAt(text, k)}) = 1

NoRepeats(ws) == \A i, j \in 1..Len(ws) : ws[i] = ws[j] => i = j

\* C2 amended: when no word is repeated in the list, the entries sum to at most
\* the number of tokens, with equality exactly when every token equals some
\* word of the list.
C2_Conservation ==
    (pc = "counted" /\ NoRepeats(words)) =>
        /\ SumSeq(ret) <= NumTokens(text)
        /\ SumSeq(ret) = NumTokens(text) <=>
               \A k \in TokenStarts(text) :
                   \E i \in 1..Len(words) : words[i] = TokenAt(text, k)

\* C2 witness: equality is reached with two distinct words, and missed.
C2_Witness ==
    /\ pc = "counted"
    /\ NoRepeats(words)
    /\ Len(words) = 2
    /\ NumTokens(text) = 3
    /\ SumSeq(ret) = 3

(***************************************************************************)
(* process_tweet applied to a tweet and a lexicon                          *)
(***************************************************************************)
MaxTweetLen == 3
MaxLex == 4
MaxAllWords == 5

LexWords == {<<"a">>, <<"b">>}

\* the ways to cut a list of words into its positive, negative and neutral part
Cuts(ws) ==
    {<<SubSeq(ws, 1, i), SubSeq(ws, i + 1, j), SubSeq(ws, j + 1, Len(ws))>> :
        <<i, j>> \in {<<i, j>> \in (0..Len(ws)) \X (0..Len(ws)) : i <= j}}

\* lexicons with a word that is not alphabetic, and word lists given as
\* all_words that are not the concatenation of the three lists
NonAlphaLexicons ==
    {<< <<w>>, << <<"a">> >>, << <<"b">> >> >> : w \in {<<"a", "1">>, <<>>}}
    \cup {<< << <<"a">> >>, <<w>>, << <<"b">> >> >> : w \in {<<"a", "1">>, <<>>}}
    \cup {<< << <<"a">> >>, << <<"b">> >>, <<w>> >> : w \in {<<"a", "1">>, <<>>}}

OtherAllWords ==
    SeqsUpTo(LexWords, MaxAllWords) \cup {<< <<"a">>, <<"1">> >>}

InitProcess ==
    /\ pc = "process"
    /\ tweet \in SeqsUpTo(TextChars, MaxTweetLen)
    /\ \/ \E lex \in NonAlphaLexicons \cup UNION {Cuts(ws) : ws \in SeqsUpTo(LexWords, MaxLex)} :
              /\ positive_words = lex[1]
              /\ negative_words = lex[2]
              /\ neutral_words = lex[3]
              /\ all_words = lex[1] \o lex[2] \o lex[3]
       \/ /\ positive_words = << <<"a">> >>
          /\ negative_words = << <<"b">> >>
          /\ neutral_words = << <<"a", "b">> >>
          /\ all_words \in OtherAllWords
    /\ text = <<>>
    /\ words = <<>>
    /\ payload = <<>>
    /\ lines = <<>>
    /\ tweets = <<>>
    /\ results = <<>>
    /\ ret = <<>>
    /\ raised = NoError

ProcessTweet ==
    /\ pc = "process"
    /\ LET r == process_tweet(tweet, positive_words, negative_words, neutral_words,
                              all_words)
       IN  /\ ret' = r.value
           /\ raised' = r.raised
           /\ pc' = IF r.raised = NoError THEN "processed" ELSE "raised"
    /\ UNCHANGED <<text, words, tweet, positive_words, negative_words,
                   neutral_words, all_words, payload, lines, tweets, results>>

NextProcess == ProcessTweet

SpecProcess == InitProcess /\ [][NextProcess]_vars

\* the number of pairs of a token of t and a position of ws holding that token
MatchCount(t, ws) ==
    Cardinality({<<k, i>> \in TokenStarts(t) \X (1..Len(ws)) : TokenAt(t, k) = ws[i]})

NeutralAlternatives == {<< <<"a">> >>, << <<"b">> >>, << <<"b">>, <<"a">> >>}

\* C3: the score is the first entry of the classification vector minus the
\* third, the positive matches minus the negative matches, whatever the
\* neutral list and the neutral matches are.
C3_Score ==
    pc = "processed" =>
        LET cv == get_classification_vector(positive_words, neutral_words,
                                            negative_words, tweet).value
        IN  /\ ret.score = cv[1] - cv[3]
            /\ ret.score = MatchCount(tweet, positive_words)
                           - MatchCount(tweet, negative_words)
            /\ \A neu \in NeutralAlternatives :
                   process_tweet(tweet, positive_words, negative_words, neu,
                                 all_words).value.score = ret.score

\* C3 witness: a tweet with a neutral and a negative match scored -1.
C3_Witness ==
    /\ pc = "processed"
    /\ ret.classification_vector = <<0, 1, 1>>
    /\ ret.score = -1

\* the total number of matches and the size of the lexicon
TotalMatches == SumSeq(get_count_vector(tweet, all_words).value)
LexiconSize == Len(all_words)

\* C4 as stated: the quality index is the quotient of the total number of
\* matches by the size of the lexicon (the double that the division gives);
\* it is zero exactly when no token of the tweet equals a word of the lexicon
\* and exceeds 1 when the matches outnumber the words of the lexicon.
C4_Original ==
    pc = "processed" =>
        /\ ret.quality_index = FDiv(TotalMatches, LexiconSize)
        /\ ret.quality_index = FZero <=> MatchCount(tweet, all_words) = 0
        /\ TotalMatches > LexiconSize =>
               ~ExactLeq(ret.quality_index, Exact(<<1>>, 0))

\* |x * n - t| <= (n + 2) * t * 2^-Precision
WithinRounding(x, t, n) ==
    LET xn == ExactMulInt(x, n)
        tt == Exact(BigFromNat(t), 0)
        tol == Exact(BigFromNat((n + 2) * t), -Precision)
    IN  /\ ExactLeq(xn, ExactAdd(tt, tol))
        /\ ExactLeq(tt, ExactAdd(xn, tol))

\* C4 amended: the quality index is the quotient of the total number of
\* matches by the size of the lexicon up to the rounding of the float
\* operations (a relative error of at most (size + 2) * 2^-53); it is zero
\* exactly when no token of the tweet equals a word of the lexicon, and it
\* exceeds 1 when the matches outnumber the words of the lexicon.
C4_Quality ==
    pc = "processed" =>
        /\ WithinRounding(ret.quality_index, TotalMatches, LexiconSize)
        /\ ret.quality_index = FZero <=> MatchCount(tweet, all_words) = 0
        /\ TotalMatches > LexiconSize =>
               ~ExactLeq(ret.quality_index, Exact(<<1>>, 0))

\* C4 witness: three matches on a lexicon of five words gave a quality
\* index that is not the double nearest to 3/5, and more matches than words
\* gave one above 1.
C4_Witness ==
    /\ pc = "processed"
    /\ LexiconSize = 5
    /\ TotalMatches = 3
    /\ ret.quality_index # FDiv(3, 5)

C4_WitnessAboveOne ==
    /\ pc = "processed"
    /\ TotalMatches > LexiconSize
    /\ ~ExactLeq(ret.quality_index, Exact(<<1>>, 0))

(***************************************************************************)
(* load_words applied to a JSON document, then process_tweet applied to a  *)
(* tweet with the lexicon it returned                                      *)
(***************************************************************************)
MaxPayloadWords == 4

RawWords == {<<"e">>, <<CapEAcute>>, <<"b">>, <<"c">>, <<"a">>, <<"b", "1">>}

Strings(ws) == JArray([i \in 1..Len(ws) |-> JString(ws[i])])

CategoryKeys == {"positive", "negative", "neutral"}

\* {"positive": [...], "negative": [...], "neutral": [...]}
Members(pos, neg, neu) ==
    [k \in CategoryKeys |->
        CASE k = "positive" -> Strings(pos)
          [] k = "negative" -> Strings(neg)
          [] k = "neutral" -> Strings(neu)]

WellFormed(pos, neg, neu) == JObject(Members(pos, neg, neu))

\* documents that break the schema: a key missing, a key too many, a
\* category that is no array, an item that is no string, no object at all
Malformed(pos, neg, neu) ==
    LET m == Members(pos, neg, neu)
    IN  {JObject([k \in CategoryKeys \ {gone} |-> m[k]]) : gone \in CategoryKeys}
        \cup {JObject([k \in CategoryKeys \cup {"extra"} |->
                          IF k = "extra" THEN JArray(<<>>) ELSE m[k]])}
        \cup {JObject([m EXCEPT ![bad] = JString(<<"e">>)]) : bad \in CategoryKeys}
        \cup {JObject([m EXCEPT ![bad] = JArray(Append(@.items, JNumber))]) :
                 bad \in CategoryKeys}
        \cup {JArray(<<>>)}

\* the documents made of a list of at most n words cut into three categories;
\* the malformed ones are made of the lists of at most n - 2 words
Documents(l, n) ==
    UNION {{WellFormed(SubSeq(l, 1, i), SubSeq(l, i + 1, j), SubSeq(l, j + 1, Len(l)))}
           \cup (IF Len(l) <= n - 2
                 THEN Malformed(SubSeq(l, 1, i), SubSeq(l, i + 1, j),
                                SubSeq(l, j + 1, Len(l)))
                 ELSE {}) :
              <<i, j>> \in {<<i, j>> \in (0..Len(l)) \X (0..Len(l)) : i <= j}}

LoadedTweets ==
    {<<>>, <<"e">>, <<"b">>, <<"e", " ", "b">>, <<"b", " ", "a">>, <<"c", " ", "c">>}

InitLoad ==
    /\ pc = "load_words"
    /\ \E l \in SeqsUpTo(RawWords, MaxPayloadWords) :
           payload \in Documents(l, MaxPayloadWords)
    /\ lines = <<>>
    /\ tweets = <<>>
    /\ text = <<>>
    /\ words = <<>>
    /\ tweet = <<>>
    /\ positive_words = <<>>
    /\ negative_words = <<>>
    /\ neutral_words = <<>>
    /\ all_words = <<>>
    /\ results = <<>>
    /\ ret = <<>>
    /\ raised = NoError

\* positive_words, negative_words, neutral_words, all_words = load_words(...)
LoadWords ==
    /\ pc = "load_words"
    /\ LET r == load_words(payload)
       IN  IF r.raised = NoError
           THEN /\ positive_words' = r.value.positive
                /\ negative_words' = r.value.negative
                /\ neutral_words' = r.value.neutral
                /\ all_words' = r.value.all_words
                /\ pc' = "loaded"
                /\ UNCHANGED raised
           ELSE /\ raised' = r.raised
                /\ pc' = "raised"
                /\ UNCHANGED <<positive_words, negative_words, neutral_words, all_words>>
    /\ UNCHANGED <<text, words, tweet, payload, lines, tweets, results, ret>>

\* process_tweet(tweet, positive_words, negative_words, neutral_words, all_words)
\* with the loaded lexicon
ProcessLoaded ==
    /\ pc = "loaded"
    /\ \E tw \in LoadedTweets :
           LET r == process_tweet(tw, positive_words, negative_words, neutral_words,
                                  all_words)
           IN  /\ tweet' = tw
               /\ ret' = r.value
               /\ raised' = r.raised
               /\ pc' = IF r.raised = NoError THEN "processed" ELSE "tweet_raised"
    /\ UNCHANGED <<text, words, positive_words, negative_words, neutral_words,
                   all_words, payload, lines, tweets, results>>

NextLoad == LoadWords \/ ProcessLoaded

SpecLoad == InitLoad /\ [][NextLoad]_vars

\* load_words has returned its lists
Returned == pc \in {"loaded", "processed", "tweet_raised"}

NothingReturned ==
    /\ positive_words = <<>>
    /\ negative_words = <<>>
    /\ neutral_words = <<>>
    /\ all_words = <<>>

\* the document has the three categories, and nothing else, each a non-empty
\* array of strings
ThreeNonEmptyCategories ==
    /\ payload.type = "object"
    /\ DOMAIN payload.members = CategoryKeys
    /\ \A k \in CategoryKeys :
           /\ payload.members[k].type = "array"
           /\ payload.members[k].items # <<>>
           /\ \A i \in 1..Len(payload.members[k].items) :
                  payload.members[k].items[i].type = "string"

\* the sanitized words of the document, category after category
SanitizedWords ==
    LET san(k) == [i \in 1..Len(payload.members[k].items) |->
                      sanitize_text(payload.members[k].items[i].chars)]
    IN  san("positive") \o san("negative") \o san("neutral")

\* C5: a document with three non-empty categories in which a sanitized word
\* occurs twice, in one category or in two, is rejected and no list is
\* returned; the lists load_words returns hold no word twice.
C5_Uniqueness ==
    /\ (pc # "load_words" /\ ThreeNonEmptyCategories /\ ~NoRepeats(SanitizedWords)) =>
           /\ pc = "raised"
           /\ raised = ValueError("El archivo contiene palabras repetidas.")
           /\ NothingReturned
    /\ Returned =>
           /\ NoRepeats(positive_words \o negative_words \o neutral_words)
           /\ all_words = positive_words \o negative_words \o neutral_words

\* C5 witness: two words that differ as written and agree once sanitized, in
\* two categories, were rejected.
C5_Witness ==
    /\ pc = "raised"
    /\ payload = WellFormed(<< <<CapEAcute>> >>, << <<"e">> >>, << <<"b">> >>)
    /\ raised = ValueError("El archivo contiene palabras repetidas.")

\* the document misses a category, has another key, or has a category that
\* is no array of strings
BreaksSchema ==
    \/ payload.type # "object"
    \/ /\ payload.type = "object"
       /\ \/ \E k \in CategoryKeys : k \notin DOMAIN payload.members
          \/ \E k \in DOMAIN payload.members : k \notin CategoryKeys
          \/ \E k \in CategoryKeys \cap DOMAIN payload.members :
                 \/ payload.members[k].type # "array"
                 \/ /\ payload.members[k].type = "array"
                    /\ \E i \in 1..Len(payload.members[k].items) :
                           payload.members[k].items[i].type # "string"

\* C6: a document that misses a category, has an additional key or has a
\* category that is no array of strings is rejected with the format error,
\* whatever its categories hold (empty or repeated words), and no list is
\* returned.
C6_Schema ==
    (pc # "load_words" /\ BreaksSchema) =>
        /\ pc = "raised"
        /\ raised = ValueError("El archivo no tiene el formato correcto.")
        /\ NothingReturned

\* C6 witness: a document with an additional key and an empty category was
\* rejected with the format error.
C6_Witness ==
    /\ pc = "raised"
    /\ payload.type = "object"
    /\ DOMAIN payload.members = CategoryKeys \cup {"extra"}
    /\ payload.members["positive"].items = <<>>
    /\ raised = ValueError("El archivo no tiene el formato correcto.")

\* C7 as stated: every word load_words returns is alphabetic, so process_tweet
\* never rejects a word list it returned.
C7_Alphabetic ==
    Returned =>
        /\ AllAlpha(positive_words)
        /\ AllAlpha(negative_words)
        /\ AllAlpha(neutral_words)
        /\ AllAlpha(all_words)
        /\ pc = "tweet_raised" => raised = ValueError("El tweet no puede estar vacio.")

\* C10: with a lexicon load_words returned, the three entries of the
\* classification vector are the sums of the entries of the count vector
\* over the positive, the negative and the neutral words, the two vectors
\* have the same total, and a token adds at most 1 to at most one entry.
C10_Consistent ==
    pc = "processed" =>
        LET cv == ret.count_vector
            k == ret.classification_vector
            np == Len(positive_words)
            ng == Len(negative_words)
        IN  /\ cv = get_count_vector(tweet, all_words).value
            /\ k = get_classification_vector(positive_words, neutral_words,
                                             negative_words, tweet).value
            /\ k[1] = SumSeq(SubSeq(cv, 1, np))
            /\ k[3] = SumSeq(SubSeq(cv, np + 1, np + ng))
            /\ k[2] = SumSeq(SubSeq(cv, np + ng + 1, Len(cv)))
            /\ k[1] + k[2] + k[3] = SumSeq(cv)
            /\ \A i \in 1..Len(split(tweet)) :
                   LET d == ClassifyToken(positive_words, neutral_words, negative_words,
                                          zeros(3), split(tweet)[i])
                   IN  d[1] + d[2] + d[3] <= 1

\* C10 witness: a lexicon with two negative words, a tweet that matches both.
C10_Witness ==
    /\ pc = "processed"
    /\ Len(negative_words) = 2
    /\ ret.classification_vector = <<0, 0, 2>>
    /\ ret.count_vector = <<0, 1, 1, 0>>

(***************************************************************************)
(* main: the tweets and the lexicon are loaded, every tweet is processed   *)
(* in turn and the results are written.  The checks of the directories and *)
(* the confirmation prompt are left out.                                   *)
(***************************************************************************)
MaxLines == 2
MaxBatchWords == 3

RawLines ==
    {<<"b", " ", "e", "\n">>, <<CapEAcute, "!", "\n">>, <<"a", "\n">>, <<"\n">>}

BatchWords == {<<CapEAcute>>, <<"b">>, <<"c">>, <<"b", "1">>}

Init ==
    /\ pc = "load_tweets"
    /\ lines \in SeqsUpTo(RawLines, MaxLines)
    /\ \E l \in SeqsUpTo(BatchWords, MaxBatchWords) :
           payload \in Documents(l, 0)
    /\ tweets = <<>>
    /\ text = <<>>
    /\ words = <<>>
    /\ tweet = <<>>
    /\ positive_words = <<>>
    /\ negative_words = <<>>
    /\ neutral_words = <<>>
    /\ all_words = <<>>
    /\ results = <<>>
    /\ ret = <<>>
    /\ raised = NoError

\* load_tweets(path), from the lines of the file on
load_tweets(ls) == [i \in 1..Len(ls) |-> sanitize_text(ls[i])]

\* tweets = load_tweets(...)
LoadTweets ==
    /\ pc = "load_tweets"
    /\ tweets' = load_tweets(lines)
    /\ pc' = "load_words"
    /\ UNCHANGED <<text, words, tweet, positive_words, negative_words,
                   neutral_words, all_words, payload, lines, results, ret, raised>>

\* one turn of the loop of main over tweets
ProcessNext ==
    /\ pc = "loaded"
    /\ Len(results) < Len(tweets)
    /\ LET tw == tweets[Len(results) + 1]
           r == process_tweet(tw, positive_words, negative_words, neutral_words,
                              all_words)
       IN  /\ tweet' = tw
           /\ IF r.raised = NoError
              THEN /\ results' = Append(results, [tweet |-> tw,
                                                  score |-> r.value.score,
                                                  quality_index |-> r.value.quality_index])
                   /\ UNCHANGED <<pc, raised>>
              ELSE /\ raised' = r.raised
                   /\ pc' = "tweet_raised"
                   /\ UNCHANGED results
    /\ UNCHANGED <<text, words, positive_words, negative_words, neutral_words,
                   all_words, payload, lines, tweets, ret>>

\* the loop is over: the results are written to the output file
WriteResults ==
    /\ pc = "loaded"
    /\ Len(results) = Len(tweets)
    /\ ret' = results
    /\ pc' = "done"
    /\ UNCHANGED <<text, words, tweet, positive_words, negative_words,
                   neutral_words, all_words, payload, lines, tweets, results, raised>>

Next == LoadTweets \/ LoadWords \/ ProcessNext \/ WriteResults

Spec == Init /\ [][Next]_vars

\* C9 as stated: whenever load_words accepts the lexicon, the run ends with
\* one record per line of the file, in the order of the lines: the k-th
\* record is that of the k-th line sanitized, with score 0 and quality 0
\* when the line has no match.
C9_OneRecordPerLine ==
    /\ pc # "tweet_raised"
    /\ pc = "done" =>
           /\ Len(ret) = Len(lines)
           /\ \A k \in 1..Len(lines) :
                  /\ ret[k].tweet = sanitize_text(lines[k])
                  /\ ret[k].score = MatchCount(ret[k].tweet, positive_words)
                                    - MatchCount(ret[k].tweet, negative_words)
                  /\ MatchCount(ret[k].tweet, all_words) = 0 =>
                         ret[k].score = 0 /\ ret[k].quality_index = FZero

====
